---------------------------- MODULE Spec2Model ----------------------------
(***************************************************************************)
(* A model of scilifelab/db/statusdb.py: the identifier matcher, the       *)
(* run-metrics index (SampleRunMetricsConnection), the sample reconciler   *)
(* (ProjectSummaryConnection.map_name_to_srm / map_srm_to_name) and the    *)
(* document upsert resolver (update_fn).                                   *)
(*                                                                         *)
(* Python strings are sequences of one-character strings, so that the      *)
(* regular expressions, startswith, rstrip and replace of the source are   *)
(* computed and not assumed.  A Python value that may be None is a record  *)
(* [t |-> "none"] or [t |-> "str" / "dict", ...].  A call's outcome is a   *)
(* record whose field exc is "none" for a normal return and the name of    *)
(* the Python exception otherwise.                                         *)
(***************************************************************************)
EXTENDS Integers, Sequences, FiniteSets, TLC

VARIABLES
    \* identifier matcher: the two arguments and the outcome of the call
    project_sample_name, sample_run_name, match_ret,
    \* the "samples" database, and one SampleRunMetricsConnection's views
    samples_db, name_fc_view, name_proj_view, ids_ret,
    \* the "projects" database and the outcome of the last reconciler call
    projects_db, recon_ret,
    \* the database update_fn works on and the outcome of its last call
    store, clock, update_ret, update_again

matcherVars == <<project_sample_name, sample_run_name, match_ret>>
indexVars   == <<name_fc_view, name_proj_view, ids_ret>>
reconVars   == <<projects_db, recon_ret>>
updateVars  == <<store, clock, update_ret, update_again>>
vars == <<matcherVars, samples_db, indexVars, reconVars, updateVars>>

-----------------------------------------------------------------------------
(* Bounds of the model *)

\* longest project sample name drawn exhaustively from MatcherAlphabet
MaxNameLen == 3
\* longest run-level identifier drawn exhaustively from MatcherAlphabet
MaxRunLen == 3

-----------------------------------------------------------------------------
(* Python values *)

PyNone == [t |-> "none"]
PyStr(s) == [t |-> "str", s |-> s]
IsNone(x) == x.t = "none"

\* a normal return of value v, and a raised exception e
Return(v) == [exc |-> "none", val |-> v]
Raise(e)  == [exc |-> e]
NoCall    == [exc |-> "nocall"]

\* str(x): a string is itself, None is "None"
Str(x) == IF IsNone(x) THEN <<"N", "o", "n", "e">> ELSE x.s

-----------------------------------------------------------------------------
(* Strings *)

Digits == {"0", "1", "2", "3", "4", "5", "6", "7", "8", "9"}
Upper  == {"A", "B", "C", "D", "E", "F", "G", "H", "I", "J", "K", "L", "M",
           "N", "O", "P", "Q", "R", "S", "T", "U", "V", "W", "X", "Y", "Z"}
Lower  == {"a", "b", "c", "d", "e", "f", "g", "h", "i", "j", "k", "l", "m",
           "n", "o", "p", "q", "r", "s", "t", "u", "v", "w", "x", "y", "z"}
\* the class [A-Za-z0-9\_]
WordChars == Upper \cup Lower \cup Digits \cup {"_"}

\* s[i], or the empty string past the end of s (no character equals it)
At(s, i) == IF i >= 1 /\ i <= Len(s) THEN s[i] ELSE ""

\* s.startswith(p)
StartsWith(s, p) == Len(p) <= Len(s) /\ SubSeq(s, 1, Len(p)) = p

\* s.endswith(p)
EndsWith(s, p) ==
    Len(p) <= Len(s) /\ SubSeq(s, Len(s) - Len(p) + 1, Len(s)) = p

\* s.rstrip(c): every trailing occurrence of character c is removed
RECURSIVE RStrip(_, _)
RStrip(s, c) ==
    IF Len(s) > 0 /\ s[Len(s)] = c THEN RStrip(SubSeq(s, 1, Len(s) - 1), c)
    ELSE s

\* the index after the longest run of characters of class cls that starts at i
RECURSIVE RunEnd(_, _, _)
RunEnd(s, i, cls) ==
    IF At(s, i) \in cls THEN RunEnd(s, i + 1, cls) ELSE i

\* s.replace(old, ""): the non-overlapping occurrences of old, left to right,
\* are removed; with old = "" the string is returned as it is
RECURSIVE Remove(_, _)
Remove(s, old) ==
    IF Len(old) = 0 \/ Len(s) < Len(old) THEN s
    ELSE IF SubSeq(s, 1, Len(old)) = old
         THEN Remove(SubSeq(s, Len(old) + 1, Len(s)), old)
         ELSE <<s[1]>> \o Remove(SubSeq(s, 2, Len(s)), old)

\* the result of re.search: no match, or the text of group 1
NoMatch == [found |-> FALSE]
Group1(g) == [found |-> TRUE, g1 |-> g]

\* re.search("(\d+)_?([A-Z])?_", s).  At start i the group (\d+) takes
\* digits up to e (greedy: the largest e that lets the rest match), then an
\* optional "_", an optional capital and a "_" must follow.
SampleIdTail(s, e) ==
    \E u \in {0, 1}, l \in {0, 1} :
        /\ u = 1 => At(s, e) = "_"
        /\ l = 1 => At(s, e + u) \in Upper
        /\ At(s, e + u + l) = "_"

SearchSampleId(s) ==
    LET starts == {i \in 1..Len(s) :
                     \E e \in (i + 1)..RunEnd(s, i, Digits) : SampleIdTail(s, e)}
    IN  IF starts = {} THEN NoMatch
        ELSE LET i == CHOOSE x \in starts : \A y \in starts : x <= y
                 ends == {e \in (i + 1)..RunEnd(s, i, Digits) : SampleIdTail(s, e)}
                 e == CHOOSE x \in ends : \A y \in ends : x >= y
             IN  Group1(SubSeq(s, i, e - 1))

\* re.search("(_index[0-9]+)", s)
IndexLiteral == <<"_", "i", "n", "d", "e", "x">>

SearchIndex(s) ==
    LET starts == {i \in 1..Len(s) :
                     /\ i + 5 <= Len(s)
                     /\ SubSeq(s, i, i + 5) = IndexLiteral
                     /\ At(s, i + 6) \in Digits}
    IN  IF starts = {} THEN NoMatch
        ELSE LET i == CHOOSE x \in starts : \A y \in starts : x <= y
             IN  Group1(SubSeq(s, i, RunEnd(s, i + 6, Digits) - 1))

\* re.search("([A-Za-z0-9\_]+)(\_index[0-9]+)?", s): group 1 is greedy and
\* the second group is optional, so group 1 is the first longest run of
\* word characters
SearchWord(s) ==
    LET starts == {i \in 1..Len(s) : s[i] \in WordChars}
    IN  IF starts = {} THEN NoMatch
        ELSE LET i == CHOOSE x \in starts : \A y \in starts : x <= y
             IN  Group1(SubSeq(s, i, RunEnd(s, i, WordChars) - 1))

-----------------------------------------------------------------------------
(* Identifier matcher *)

\* _match_project_name_to_barcode_name(project_sample_name, sample_run_name):
\* psn is a string, srn a string or None (map_name_to_srm passes
\* s.get("barcode_name", None)).  re.search raises TypeError on None, and
\* .group(1) raises AttributeError when re.search found nothing.
_match_project_name_to_barcode_name(psn, srn) ==
    IF ~StartsWith(psn, <<"P">>)
    THEN IF IsNone(srn) THEN Raise("TypeError")
         ELSE LET sample_id == SearchSampleId(srn.s)
              IN  IF ~sample_id.found THEN Raise("AttributeError")
                  ELSE IF sample_id.g1 = psn THEN Return(TRUE)
                  ELSE LET m == SearchIndex(srn.s)
                           index == IF ~m.found THEN <<>> ELSE m.g1
                           sample_id2 == SearchWord(Remove(srn.s, index))
                       IN  IF ~sample_id2.found THEN Raise("AttributeError")
                           ELSE Return(sample_id2.g1 = psn)
    ELSE IF StartsWith(Str(srn), psn) THEN Return(TRUE)
    ELSE IF StartsWith(Str(srn), RStrip(psn, "F")) THEN Return(TRUE)
    ELSE IF StartsWith(Str(srn), RStrip(psn, "B")) THEN Return(TRUE)
    ELSE Return(FALSE)

\* the characters the matcher's arguments are drawn from exhaustively
MatcherAlphabet == {"P", "1", "B", "C", "_"}

StringsUpTo(n, alphabet) == UNION {[1..k -> alphabet] : k \in 0..n}

\* longer names and identifiers of the kinds the laboratory uses
NameCorpus ==
    { <<"4", "5">>,
      <<"P", "1", "F", "F">>,
      <<"P", "1", "_", "2", "D">>,
      <<"P", "1", "_", "2", "E">>,
      <<"a", "b">> }

RunCorpus ==
    { <<"4", "5", "A", "_", "i", "n", "d", "e", "x", "7">>,
      <<"a", "b", "_", "i", "n", "d", "e", "x", "7", "_", "1", "_">>,
      <<"_", "i", "n", "d", "e", "x", "5", "_", "i", "n", "d", "e", "x", "5">>,
      <<"P", "1", "_", "2", "B", "_", "A", "C">>,
      <<"P", "1", "_", "2", "_", "A", "C">>,
      <<"a", "b", "-", "1", "_">>,
      <<"N", "o", "n", "e">> }

ProjectSampleNames == StringsUpTo(MaxNameLen, MatcherAlphabet) \cup NameCorpus

SampleRunNames ==
    {PyStr(s) : s \in StringsUpTo(MaxRunLen, MatcherAlphabet) \cup RunCorpus}
        \cup {PyNone}

MatcherIdle ==
    /\ project_sample_name = <<>>
    /\ sample_run_name = PyNone
    /\ match_ret = NoCall

\* one call of the matcher on the arguments drawn at the start
MatchCall ==
    /\ match_ret = NoCall
    /\ match_ret' = _match_project_name_to_barcode_name(project_sample_name,
                                                       sample_run_name)
    /\ UNCHANGED <<project_sample_name, sample_run_name>>
    /\ UNCHANGED <<samples_db, indexVars, reconVars, updateVars>>

-----------------------------------------------------------------------------
(* The "samples" database and the run-metrics index *)

\* most sample_run_metrics documents the "samples" database holds
MaxDocs == 2

\* Python's None among flowcell ids, project ids and storage ids, which are
\* opaque here (strings and numbers)
NoneId == "None"

\* the sample_run_metrics documents that may be stored.  _id orders the rows
\* of a view that share a key; name is lane_flowcell_sequence.
SampleRunDocs ==
    { [_id |-> 1, name |-> <<"1", "_", "F", "C", "1", "_", "A", "C">>,
       flowcell |-> "FC1", sample_prj |-> "P",
       barcode_name |-> PyStr(<<"P", "1", "B", "_", "1">>)],
      [_id |-> 2, name |-> <<"2", "_", "F", "C", "2", "_", "G", "T">>,
       flowcell |-> "FC2", sample_prj |-> "P",
       barcode_name |-> PyStr(<<"7", "_", "A">>)],
      [_id |-> 3, name |-> <<"3", "_", "F", "C", "1", "_", "N", "o", "I", "n", "d", "e", "x">>,
       flowcell |-> "FC1", sample_prj |-> "P",
       barcode_name |-> PyNone],
      [_id |-> 4, name |-> <<"1", "_", "F", "C", "1", "_", "T", "T">>,
       flowcell |-> "FC1", sample_prj |-> "Q",
       barcode_name |-> PyStr(<<"Q", "1", "_", "1">>)] }

\* a document whose name ends in "_" and digits, which the views leave out
UnindexedDoc ==
    [_id |-> 5, name |-> <<"5", "_", "F", "C", "2", "_", "1">>,
     flowcell |-> "FC2", sample_prj |-> "P",
     barcode_name |-> PyStr(<<"P", "1", "_", "2">>)]

\* the views' filter: !doc["name"].match(/_[0-9]+$/)
EndsInUnderscoreDigits(name) ==
    \E i \in 1..Len(name) :
        /\ name[i] = "_"
        /\ i < Len(name)
        /\ \A j \in (i + 1)..Len(name) : name[j] \in Digits

\* the rows of view names/name_fc (field = "flowcell") and names/name_proj
\* (field = "sample_prj") over database db
ViewRows(db, field) ==
    {[key |-> d.name, id |-> d._id, value |-> d[field]] :
        d \in {x \in db : ~EndsInUnderscoreDigits(x.name)}}

\* {k.key:k for k in view}: the view's rows come ordered by key and then by
\* document id, and a later row replaces an earlier one with the same key
ViewDict(rows) ==
    [n \in {r.key : r \in rows} |->
        CHOOSE r \in rows : r.key = n /\ \A q \in rows : q.key = n => q.id <= r.id]

\* if x: None and the empty string are false
Truthy(x) == x # NoneId /\ x # ""

\* SampleRunMetricsConnection.get_sample_ids(fc_id, sample_prj) on the views
\* fc_view and proj_view; the returned list is read as a set
get_sample_ids(fc_view, proj_view, fc_id, sample_prj) ==
    LET fc_sample_ids ==
            IF Truthy(fc_id)
            THEN {fc_view[k].id : k \in {n \in DOMAIN fc_view : fc_view[n].value = fc_id}}
            ELSE {}
        prj_sample_ids ==
            IF Truthy(sample_prj)
            THEN {proj_view[k].id :
                    k \in {n \in DOMAIN proj_view : proj_view[n].value = sample_prj}}
            ELSE {}
    IN  IF Cardinality(fc_sample_ids) > 0 /\ Cardinality(prj_sample_ids) > 0
        THEN fc_sample_ids \cap prj_sample_ids
        ELSE fc_sample_ids \cup prj_sample_ids

\* SampleRunMetricsConnection.get_samples: the documents of the ids
get_samples(db, fc_view, proj_view, fc_id, sample_prj) ==
    {d \in db : d._id \in get_sample_ids(fc_view, proj_view, fc_id, sample_prj)}

\* s_con = SampleRunMetricsConnection(...); s_con.get_samples(fc_id, sample_prj):
\* a connection made for the call reads the views of db as it is
IndexSamples(db, fc_id, sample_prj) ==
    get_samples(db, ViewDict(ViewRows(db, "flowcell")),
                ViewDict(ViewRows(db, "sample_prj")), fc_id, sample_prj)

Flowcells == {"FC1", "FC2"}
SampleProjects == {"P", "Q"}
\* the values a caller passes for a filter: not given (None), empty, or an id
FlowcellArgs == Flowcells \cup {NoneId, ""}
ProjectArgs == SampleProjects \cup {NoneId}

IndexIdle ==
    /\ name_fc_view = <<>>
    /\ name_proj_view = <<>>
    /\ ids_ret = NoCall

\* a pipeline run stores one more sample_run_metrics document
InsertSampleDoc ==
    /\ ids_ret = NoCall /\ recon_ret = NoCall
    /\ Cardinality(samples_db) < MaxDocs
    /\ \E d \in SampleRunDocs \ samples_db : samples_db' = samples_db \cup {d}
    /\ UNCHANGED <<indexVars, reconVars>>
    /\ UNCHANGED <<matcherVars, updateVars>>

\* a pipeline run stores a document the views leave out
InsertUnindexedDoc ==
    /\ ids_ret = NoCall /\ recon_ret = NoCall
    /\ Cardinality(samples_db) < MaxDocs
    /\ UnindexedDoc \notin samples_db
    /\ samples_db' = samples_db \cup {UnindexedDoc}
    /\ UNCHANGED <<indexVars, reconVars>>
    /\ UNCHANGED <<matcherVars, updateVars>>

\* SampleRunMetricsConnection.__init__: the views are read once
Connect ==
    /\ ids_ret = NoCall
    /\ name_fc_view' = ViewDict(ViewRows(samples_db, "flowcell"))
    /\ name_proj_view' = ViewDict(ViewRows(samples_db, "sample_prj"))
    /\ UNCHANGED <<samples_db, ids_ret, matcherVars, reconVars, updateVars>>

\* a call of get_sample_ids on the connection
GetSampleIds ==
    /\ ids_ret = NoCall
    /\ \E fc_id \in FlowcellArgs, sample_prj \in ProjectArgs :
        ids_ret' = [exc |-> "none", fc_id |-> fc_id, sample_prj |-> sample_prj,
                    val |-> get_sample_ids(name_fc_view, name_proj_view,
                                           fc_id, sample_prj)]
    /\ UNCHANGED <<samples_db, name_fc_view, name_proj_view>>
    /\ UNCHANGED <<matcherVars, reconVars, updateVars>>

-----------------------------------------------------------------------------
(* The "projects" database *)

\* most samples a project_summary document declares
MaxSamples == 2

\* a Python dict with the entries of function f; PyNone where there is none
Dict(f) == [t |-> "dict", d |-> f]
\* if m: None and the empty dict are false
TruthyDict(m) == m.t = "dict" /\ DOMAIN m.d # {}
\* a == b for two values that are each None or a dict
PyEq(a, b) == a.t = b.t /\ (a.t = "dict" => a.d = b.d)

\* the orders in which the keys S of a dict may be iterated
Orders(S) ==
    {o \in [1..Cardinality(S) -> S] : \A i, j \in DOMAIN o : o[i] = o[j] => i = j}

\* d.update(e)
Update(d, e) ==
    [x \in DOMAIN d \cup DOMAIN e |-> IF x \in DOMAIN e THEN e[x] ELSE d[x]]

\* run identifiers a curated map may hold: two well-formed ones (the names of
\* documents 1 and 3), one more, and one that ends in "_" and digits
RunAC      == <<"1", "_", "F", "C", "1", "_", "A", "C">>
RunNoIndex == <<"3", "_", "F", "C", "1", "_", "N", "o", "I", "n", "d", "e", "x">>
RunGT      == <<"2", "_", "F", "C", "2", "_", "G", "T">>
RunStale   == <<"5", "_", "F", "C", "2", "_", "1">>

\* the project sample documents a project may declare: with no curated map,
\* a flat sample_run_metrics with a stale entry, a flat one with stale
\* entries only, library preps that share a run identifier, and a library
\* prep that has no sample_run_metrics yet
SampleVariants ==
    { [sample_run_metrics |-> PyNone, library_prep |-> PyNone],
      [sample_run_metrics |-> Dict(RunAC :> 1 @@ RunNoIndex :> 3 @@ RunStale :> 5),
       library_prep |-> PyNone],
      [sample_run_metrics |-> Dict(RunStale :> 5), library_prep |-> PyNone],
      [sample_run_metrics |-> PyNone,
       library_prep |->
           Dict("A" :> [sample_run_metrics |-> Dict(RunAC :> 1)] @@
                "B" :> [sample_run_metrics |-> Dict(RunAC :> 6 @@ RunGT :> 2)])],
      [sample_run_metrics |-> PyNone,
       library_prep |-> Dict("A" :> [sample_run_metrics |-> PyNone])] }

\* the orders library_preps.keys() may take for the samples of the projects
\* in pdb: the orders of the library prep names in use
PrepOrders(pdb) ==
    LET preps == UNION {{v.library_prep : v \in {p.samples.d[k] : k \in DOMAIN p.samples.d}} :
                           p \in {q \in pdb : q.samples.t = "dict"}}
    IN  Orders(UNION {DOMAIN lp.d : lp \in {x \in preps : x.t = "dict"}})

\* the names a project may give its samples
DeclaredNames == { <<"P", "1">>, <<"P", "1", "B">>, <<"7">> }

ProjectIds == {"P"}

\* the project_summary document of project_id; samples is None or a dict
ProjectDoc(project_id, samples) ==
    [_id |-> 10, project_id |-> project_id, samples |-> samples]

\* a project_summary document is stored, with no samples entry or with none
\* declared yet
CreateProject ==
    /\ recon_ret = NoCall
    /\ projects_db = {}
    /\ \E project_id \in ProjectIds, samples \in {PyNone, Dict(<<>>)} :
        projects_db' = {ProjectDoc(project_id, samples)}
    /\ UNCHANGED <<recon_ret, samples_db, matcherVars, indexVars, updateVars>>

\* the laboratory declares one more sample of the project
DeclareSample ==
    /\ recon_ret = NoCall
    /\ \E p \in projects_db :
        /\ p.samples.t = "dict"
        /\ Cardinality(DOMAIN p.samples.d) < MaxSamples
        /\ \E k \in DeclaredNames \ DOMAIN p.samples.d, v \in SampleVariants :
            projects_db' =
                {ProjectDoc(p.project_id, Dict(Update(p.samples.d, k :> v)))}
    /\ UNCHANGED <<recon_ret, samples_db, matcherVars, indexVars, updateVars>>

\* ProjectSummaryConnection.get_entry(name) with field None: name_view is
\* {k.key:k.id} over view project/project_id, which emits
\* (doc.project_id, doc._id); None when the name is not in it
get_entry(db, name) ==
    LET name_view == [n \in {d.project_id : d \in db} |->
                        (CHOOSE d \in db : d.project_id = n)._id]
    IN  IF name \notin DOMAIN name_view THEN PyNone
        ELSE [t |-> "doc", doc |-> CHOOSE d \in db : d._id = name_view[name]]

-----------------------------------------------------------------------------
(* Sample reconciler *)

\* re.search("_[ACGT]+$|_NoIndex$", k)
SuffixSearch(k) ==
    \/ \E i \in 1..Len(k) :
        /\ k[i] = "_"
        /\ i < Len(k)
        /\ \A j \in (i + 1)..Len(k) : k[j] \in {"A", "C", "G", "T"}
    \/ EndsWith(k, <<"_", "N", "o", "I", "n", "d", "e", "x">>)

\* _prune_ps_map(ps_map)
_prune_ps_map(ps_map) ==
    IF ~TruthyDict(ps_map) THEN PyNone
    ELSE Dict([k \in {x \in DOMAIN ps_map.d : SuffixSearch(x)} |-> ps_map.d[k]])

\* {k:v for kk in library_preps.keys()
\*      for k, v in library_preps[kk]['sample_run_metrics'].items()}
\* with the keys iterated in the order prep_order, from its i-th key on: a
\* later entry replaces an earlier one of the same run identifier
RECURSIVE FlattenPreps(_, _, _, _)
FlattenPreps(library_preps, prep_order, i, acc) ==
    IF i > Len(prep_order) THEN acc
    ELSE IF prep_order[i] \notin DOMAIN library_preps
         THEN FlattenPreps(library_preps, prep_order, i + 1, acc)
         ELSE FlattenPreps(library_preps, prep_order, i + 1,
                  Update(acc, library_preps[prep_order[i]].sample_run_metrics.d))

\* ProjectSummaryConnection._get_sample_run_metrics(v): KeyError when a
\* library prep has no 'sample_run_metrics'
_get_sample_run_metrics(v, prep_order) ==
    IF TruthyDict(v.library_prep)
    THEN IF \E kk \in DOMAIN v.library_prep.d :
                IsNone(v.library_prep.d[kk].sample_run_metrics)
         THEN Raise("KeyError")
         ELSE Return(Dict(FlattenPreps(v.library_prep.d, prep_order, 1, <<>>)))
    ELSE Return(v.sample_run_metrics)

\* the exceptions the matcher raises for sample k on the records srm_samples
MatchErrors(k, srm_samples) ==
    {_match_project_name_to_barcode_name(k, s.barcode_name).exc :
        s \in srm_samples} \ {"none"}

\* bc_map = {s["name"]:s["_id"] for s in srm_samples
\*           if _match_project_name_to_barcode_name(k, s.get("barcode_name", None))}
\* when the matcher raises for no record
BcMap(k, srm_samples) ==
    LET hits == {s \in srm_samples :
                   _match_project_name_to_barcode_name(k, s.barcode_name).val}
    IN  [n \in {s.name : s \in hits} |->
            (CHOOSE s \in hits : s.name = n /\ \A q \in hits : q.name = n => q._id <= s._id)._id]

\* one pass of the loop "for k, v in project_samples.items()" of
\* map_name_to_srm, with the flags as they are inside the loop:
\* errs are the exceptions the pass may raise (the first record the matcher
\* fails on decides, and srm_samples comes in no particular order), map is
\* sample_map[k] after the pass, warn whether the pass logs a warning
SamplePass(k, v, srm_samples, use_ps_map, use_bc_map, check_consistency, prep_order) ==
    LET got == IF use_ps_map THEN _get_sample_run_metrics(v, prep_order)
               ELSE Return(PyNone)
        ps_map == IF got.exc = "none" THEN got.val ELSE PyNone
        pruned == IF use_ps_map THEN _prune_ps_map(ps_map) ELSE PyNone
        use_bc == use_bc_map \/ ~TruthyDict(pruned)
    IN  IF got.exc # "none" THEN [errs |-> {got.exc}]
        ELSE IF use_bc /\ MatchErrors(k, srm_samples) # {}
        THEN [errs |-> MatchErrors(k, srm_samples)]
        ELSE [errs |-> {},
              map  |-> IF use_bc THEN Dict(BcMap(k, srm_samples)) ELSE pruned,
              warn |-> check_consistency
                         /\ ~PyEq(ps_map, Dict(BcMap(k, srm_samples)))]

\* ProjectSummaryConnection.map_name_to_srm: the set of its possible outcomes.
\* A normal return has val (None, or the dict sample_map) and warnings, the
\* samples a "inconsistent mappings" warning was logged for.  When a pass of
\* the loop raises, the call raises what the first such pass raises, and
\* project_samples.items() comes in no particular order.
map_name_to_srm(pdb, sdb, project_id, fc_id, use_ps_map, use_bc_map, check_consistency, prep_order) ==
    LET project == get_entry(pdb, project_id)
    IN  IF IsNone(project) THEN {[exc |-> "none", val |-> PyNone, warnings |-> {}]}
        ELSE IF IsNone(project.doc.samples)
        THEN {[exc |-> "none", val |-> PyNone, warnings |-> {}]}
        ELSE
        LET project_samples == project.doc.samples.d
            srm_samples == IndexSamples(sdb, fc_id, project_id)
            \* if check_consistency: use_ps_map = True; use_bc_map = True
            ups == use_ps_map \/ check_consistency
            ubc == use_bc_map \/ check_consistency
            pass == [k \in DOMAIN project_samples |->
                        SamplePass(k, project_samples[k], srm_samples, ups, ubc,
                                   check_consistency, prep_order)]
            errs == UNION {pass[k].errs : k \in DOMAIN project_samples}
        IN  IF errs # {} THEN {Raise(e) : e \in errs}
            ELSE {[exc |-> "none",
                   val |-> Dict([k \in DOMAIN project_samples |-> pass[k].map]),
                   warnings |-> {k \in DOMAIN project_samples : pass[k].warn}]}

\* "NOSRM_{}".format(k)
NoSrmKey(k) == <<"N", "O", "S", "R", "M", "_">> \o k

\* a storage id as the value of "id" in an entry of srm_to_name
StorageId(i) == [t |-> "id", v |-> i]

\* the loop "for k, v in samples.items()" of map_srm_to_name, with the
\* samples iterated in the order order, from its i-th on
RECURSIVE SrmToNameLoop(_, _, _, _, _)
SrmToNameLoop(samples, include_all, order, i, srm_to_name) ==
    IF i > Len(order) THEN srm_to_name
    ELSE LET k == order[i]
             v == samples[k]
         IN  IF ~TruthyDict(v)
             THEN IF ~include_all
                  THEN SrmToNameLoop(samples, include_all, order, i + 1, srm_to_name)
                  ELSE SrmToNameLoop(samples, include_all, order, i + 1,
                           Update(srm_to_name,
                                  NoSrmKey(k) :> [sample |-> k, id |-> PyNone]))
             ELSE SrmToNameLoop(samples, include_all, order, i + 1,
                      Update(srm_to_name,
                             [x \in DOMAIN v.d |->
                                 [sample |-> k, id |-> StorageId(v.d[x])]]))

\* map_srm_to_name with "if not include_all: continue" left out
map_srm_to_name_always_all(samples, include_all, order) ==
    IF samples.exc # "none" THEN Raise(samples.exc)
    ELSE IF IsNone(samples.val) THEN Raise("AttributeError")
    ELSE Return(SrmToNameLoop(samples.val.d, TRUE, order, 1, <<>>))

\* ProjectSummaryConnection.map_srm_to_name, given what its call of
\* map_name_to_srm came to (samples) and the order samples.items() takes:
\* an exception of map_name_to_srm passes through, and None has no items()
map_srm_to_name(samples, include_all, order) ==
    IF samples.exc # "none" THEN Raise(samples.exc)
    ELSE IF IsNone(samples.val) THEN Raise("AttributeError")
    ELSE Return(SrmToNameLoop(samples.val.d, include_all, order, 1, <<>>))

ReconIdle ==
    /\ projects_db = {}
    /\ recon_ret = NoCall

\* the orders samples.items() may take for a result of map_name_to_srm
ItemOrders(samples) ==
    IF samples.exc = "none" /\ ~IsNone(samples.val)
    THEN Orders(DOMAIN samples.val.d) ELSE {<<>>}

\* a call of map_name_to_srm
MapNameToSrm ==
    /\ recon_ret = NoCall
    /\ \E project_id \in ProjectIds, fc_id \in {NoneId, "FC1"},
          use_ps_map \in BOOLEAN, use_bc_map \in BOOLEAN,
          check_consistency \in BOOLEAN, prep_order \in PrepOrders(projects_db) :
        \E samples \in map_name_to_srm(projects_db, samples_db, project_id, fc_id,
                           use_ps_map, use_bc_map, check_consistency, prep_order) :
            recon_ret' = [op |-> "map_name_to_srm", project_id |-> project_id,
                          fc_id |-> fc_id, use_ps_map |-> use_ps_map,
                          use_bc_map |-> use_bc_map,
                          check_consistency |-> check_consistency,
                          include_all |-> TRUE,
                          samples |-> samples, out |-> samples]
    /\ UNCHANGED <<projects_db, samples_db, matcherVars, indexVars, updateVars>>

\* a call of map_srm_to_name, which calls map_name_to_srm
MapSrmToName ==
    /\ recon_ret = NoCall
    /\ \E project_id \in ProjectIds, fc_id \in {NoneId, "FC1"},
          use_ps_map \in BOOLEAN, use_bc_map \in BOOLEAN,
          check_consistency \in BOOLEAN, prep_order \in PrepOrders(projects_db),
          include_all \in BOOLEAN :
        \E samples \in map_name_to_srm(projects_db, samples_db, project_id, fc_id,
                           use_ps_map, use_bc_map, check_consistency, prep_order) :
            \E order \in ItemOrders(samples) :
                recon_ret' = [op |-> "map_srm_to_name", project_id |-> project_id,
                              fc_id |-> fc_id, use_ps_map |-> use_ps_map,
                              use_bc_map |-> use_bc_map,
                              check_consistency |-> check_consistency,
                              include_all |-> include_all,
                              samples |-> samples,
                              out |-> map_srm_to_name(samples, include_all, order)]
    /\ UNCHANGED <<projects_db, samples_db, matcherVars, indexVars, updateVars>>

-----------------------------------------------------------------------------
(* Document upsert resolver *)

\* most documents the database of update_fn holds
MaxStored == 2
\* the readings of the clock: utc_time() returns Times[clock]
MaxClock == 2
Times == <<"t1", "t2", "t3", "t4">>

\* A document is a function from its keys to their values; a key may be
\* missing.  "None" is Python's None among the values.
Get(d, k) == IF k \in DOMAIN d THEN d[k] ELSE "None"
\* obj[k] = v
Set(d, k, v) == Update(d, k :> v)

\* the candidate documents a caller computes: status_document.__init__ gives
\* each an _id of its own, a name, a creation_time and a modification_time
Candidates ==
    { [_id |-> 90, name |-> n, creation_time |-> "t0",
       modification_time |-> "None", lane |-> l] :
          n \in {"n1", "n2"}, l \in {"1", "2", "None"} }
    \cup
    { [_id |-> 90, name |-> n, creation_time |-> "t0",
       modification_time |-> "None"] : n \in {"n1", "n2"} }

\* the documents the database may hold, each with the _id and the _rev the
\* database gave it
StoredDocs ==
    { [_id |-> i, _rev |-> "1-a", name |-> n, creation_time |-> "t0",
       modification_time |-> "None", lane |-> l] :
          i \in {1, 2}, n \in {"n1", "n2"}, l \in {"1", "None"} }
    \cup
    { [_id |-> i, _rev |-> "2-b", name |-> n, creation_time |-> "t0",
       modification_time |-> "t0"] : i \in {1, 2}, n \in {"n1", "n2"} }

\* the names bound inside update_fn (its parameters and locals) and at the
\* top level of statusdb.py; a name that is neither (nor a builtin) raises
\* NameError where it is read
UpdateFnLocals == {"db", "obj", "viewname", "t_utc", "equal", "view", "d_view",
                   "dbid", "dbobj"}
ModuleGlobals == {"re", "izip", "Couch", "utc_time", "uuid4", "VIEWS",
                  "calc_avg_qv", "_match_project_name_to_barcode_name",
                  "sample_map_fn_id", "_prune_ps_map",
                  "SampleRunMetricsConnection", "FlowcellRunMetricsConnection",
                  "ProjectSummaryConnection", "status_document",
                  "project_summary", "flowcell_run_metrics",
                  "sample_run_metrics", "update_fn"}
IsBound(name) == name \in UpdateFnLocals \cup ModuleGlobals

\* the keys equal() leaves out
VolatileKeys == {"_id", "_rev", "creation_time", "modification_time"}

\* equal(a, b) of update_fn
equal(a, b) ==
    LET keys == (DOMAIN a \cup DOMAIN b) \ VolatileKeys
    IN  [k \in keys |-> Get(a, k)] = [k \in keys |-> Get(b, k)]

\* the rows of view names/id_to_name over database db (a function from _id
\* to document): emit(doc["_id"], doc["name"])
IdToNameRows(db) ==
    {[key |-> i, id |-> i, value |-> db[i].name] : i \in DOMAIN db}

\* d_view = {k.value:k for k in view}: rows come ordered by key
DView(rows) ==
    [n \in {r.value : r \in rows} |->
        CHOOSE r \in rows : r.value = n /\ \A q \in rows : q.value = n => q.key <= r.key]

\* update_fn(db, obj, viewname) called when utc_time() is t_utc.  A normal
\* return has doc and dbid, the pair returned (PyNone for None), and obj,
\* the caller's document as the call leaves it.  The parameter is viewname,
\* and line 455 reads view_name.
update_fn(db, obj, t_utc) ==
    IF ~IsBound("view_name") THEN [exc |-> "NameError", obj |-> obj]
    ELSE
    LET d_view == DView(IdToNameRows(db))
        dbid == IF obj.name \in DOMAIN d_view
                THEN [t |-> "row", row |-> d_view[obj.name]] ELSE PyNone
        dbobj == IF ~IsNone(dbid) /\ dbid.row.id \in DOMAIN db
                 THEN [t |-> "doc", doc |-> db[dbid.row.id]] ELSE PyNone
    IN  IF IsNone(dbobj)
        THEN LET obj1 == Set(obj, "creation_time", t_utc)
             IN  [exc |-> "none", doc |-> [t |-> "doc", doc |-> obj1],
                  dbid |-> dbid, obj |-> obj1]
        ELSE IF equal(obj, dbobj.doc)
        THEN [exc |-> "none", doc |-> PyNone, dbid |-> dbid, obj |-> obj]
        ELSE LET obj1 == Set(obj, "creation_time", Get(dbobj.doc, "creation_time"))
                 obj2 == Set(obj1, "modification_time", t_utc)
                 obj3 == Set(obj2, "_rev", Get(dbobj.doc, "_rev"))
                 obj4 == Set(obj3, "_id", Get(dbobj.doc, "_id"))
             IN  [exc |-> "none", doc |-> [t |-> "doc", doc |-> obj4],
                  dbid |-> dbid, obj |-> obj4]

UpdateIdle ==
    /\ store = <<>>
    /\ clock = 1
    /\ update_ret = NoCall
    /\ update_again = NoCall

\* some writer saves a document under an _id the database does not hold yet
StoreDoc ==
    /\ update_ret = NoCall
    /\ Cardinality(DOMAIN store) < MaxStored
    /\ \E d \in StoredDocs :
        /\ d._id \notin DOMAIN store
        /\ store' = Update(store, d._id :> d)
    /\ UNCHANGED <<update_ret, update_again, clock, matcherVars, samples_db, indexVars, reconVars>>

\* time passes
Tick ==
    /\ update_ret = NoCall
    /\ clock < MaxClock
    /\ clock' = clock + 1
    /\ UNCHANGED <<store, update_ret, update_again, matcherVars, samples_db, indexVars, reconVars>>

\* a call of update_fn with a candidate document
Resolve ==
    /\ update_ret = NoCall
    /\ \E obj \in Candidates :
        update_ret' = [arg |-> obj, t_utc |-> Times[clock],
                       out |-> update_fn(store, obj, Times[clock])]
    /\ UNCHANGED <<store, clock, update_again, matcherVars, samples_db, indexVars, reconVars>>

\* the caller calls update_fn once more with the same document object, as the
\* first call left it, nothing having been written in between
ResolveAgain ==
    /\ update_ret # NoCall
    /\ update_again = NoCall
    /\ update_again' = [arg |-> update_ret.out.obj, t_utc |-> Times[clock],
                        out |-> update_fn(store, update_ret.out.obj, Times[clock])]
    /\ UNCHANGED <<store, clock, update_ret, matcherVars, samples_db, indexVars, reconVars>>

-----------------------------------------------------------------------------
(* Specifications.  The calls read the databases and change nothing, so a
   behaviour is followed up to the return of a call. *)

\* the reconciler over the two databases
Init ==
    /\ MatcherIdle /\ IndexIdle /\ ReconIdle /\ UpdateIdle
    /\ samples_db = {}

Next ==
    \/ InsertSampleDoc
    \/ CreateProject
    \/ DeclareSample
    \/ MapNameToSrm
    \/ MapSrmToName

Spec == Init /\ [][Next]_vars

\* the matcher on every pair of arguments
InitMatcher ==
    /\ project_sample_name \in ProjectSampleNames
    /\ sample_run_name \in SampleRunNames
    /\ match_ret = NoCall
    /\ IndexIdle /\ ReconIdle /\ UpdateIdle
    /\ samples_db = {}

NextMatcher == MatchCall

SpecMatcher == InitMatcher /\ [][NextMatcher]_vars

\* one connection to the "samples" database
NextIndex ==
    \/ InsertSampleDoc
    \/ InsertUnindexedDoc
    \/ Connect
    \/ GetSampleIds

SpecIndex == Init /\ [][NextIndex]_vars

\* update_fn on one database
NextUpdate ==
    \/ StoreDoc
    \/ Tick
    \/ Resolve
    \/ ResolveAgain

SpecUpdate == Init /\ [][NextUpdate]_vars

-----------------------------------------------------------------------------
(* Claims *)

\* the ids of the rows of a view whose value is x
CandidateIds(view, x) == {view[n].id : n \in {m \in DOMAIN view : view[m].value = x}}

\* C1 (SpecIndex): get_sample_ids returns the intersection of the
\* flowcell's and the project's candidate ids when both filters are given,
\* also when one of the two candidate sets is empty; one filter's candidates
\* when only that filter is given; the empty set when neither is given.
C1_GetSampleIdsIntersects ==
    ids_ret # NoCall =>
        LET fc == CandidateIds(name_fc_view, ids_ret.fc_id)
            prj == CandidateIds(name_proj_view, ids_ret.sample_prj)
        IN  ids_ret.val =
                IF Truthy(ids_ret.fc_id) /\ Truthy(ids_ret.sample_prj) THEN fc \cap prj
                ELSE IF Truthy(ids_ret.fc_id) THEN fc
                ELSE IF Truthy(ids_ret.sample_prj) THEN prj
                ELSE {}

\* C2 (SpecMatcher): the matcher is total: for every project sample name and
\* every run identifier, None included, it returns true or false and raises
\* nothing.
C2_MatcherTotal ==
    match_ret # NoCall => match_ret.exc = "none" /\ match_ret.val \in BOOLEAN

\* C3 (SpecMatcher): for a project sample name that begins with "P" the
\* matcher returns true exactly when the run identifier starts with the name
\* or with the name less one trailing character of F, B, C, D, E.
C3_PrefixLessOneOfFiveLetters ==
    (match_ret # NoCall /\ StartsWith(project_sample_name, <<"P">>)) =>
        /\ match_ret.exc = "none"
        /\ match_ret.val <=>
            \/ StartsWith(Str(sample_run_name), project_sample_name)
            \/ /\ project_sample_name[Len(project_sample_name)]
                      \in {"F", "B", "C", "D", "E"}
               /\ StartsWith(Str(sample_run_name),
                             SubSeq(project_sample_name, 1,
                                    Len(project_sample_name) - 1))

\* C4 (Spec): map_name_to_srm and map_srm_to_name called with a project id
\* that the project lookup does not hold fail with NotFoundError.
C4_UnknownProjectNotFound ==
    (recon_ret # NoCall /\ IsNone(get_entry(projects_db, recon_ret.project_id))) =>
        recon_ret.out.exc = "NotFoundError"

\* C5 (Spec): every run identifier the index returns for the project (and
\* flowcell) is a key of what map_srm_to_name returns.
C5_NoRunIdentifierAbsent ==
    (recon_ret # NoCall /\ recon_ret.op = "map_srm_to_name"
        /\ recon_ret.out.exc = "none") =>
        \A s \in IndexSamples(samples_db, recon_ret.fc_id, recon_ret.project_id) :
            s.name \in DOMAIN recon_ret.out.val

\* C6 (Spec): every (run identifier, project sample name) pair of the
\* matcher-derived maps is in what map_srm_to_name returns, also when one
\* run identifier is matched to two project sample names.
C6_AmbiguousPairsRetained ==
    (recon_ret # NoCall /\ recon_ret.op = "map_srm_to_name"
        /\ ~recon_ret.use_ps_map /\ ~recon_ret.check_consistency
        /\ recon_ret.out.exc = "none") =>
        \A k \in DOMAIN recon_ret.samples.val.d :
            \A x \in DOMAIN recon_ret.samples.val.d[k].d :
                \E y \in DOMAIN recon_ret.out.val :
                    y = x /\ recon_ret.out.val[y].sample = k

\* the curated map of project sample document v, filtered, for some order of
\* its library preps
FilteredCurated(v) ==
    {_prune_ps_map(_get_sample_run_metrics(v, o).val) :
        o \in {q \in PrepOrders(projects_db) :
                 _get_sample_run_metrics(v, q).exc = "none"}}

\* the samples the project of the last reconciler call declares
Declared ==
    (CHOOSE p \in projects_db : p.project_id = recon_ret.project_id).samples.d

\* the last reconciler call is about a project that declares samples
OfDeclaringProject ==
    /\ recon_ret # NoCall
    /\ \E p \in projects_db :
        p.project_id = recon_ret.project_id /\ p.samples.t = "dict"

\* C7 (Spec): with check_consistency, map_name_to_srm raises nothing, and for
\* a declared sample whose filtered curated map is not empty and differs from
\* the matcher-derived map, the result is the curated map.
C7_CuratedWinsConsistencyCheck ==
    (OfDeclaringProject /\ recon_ret.check_consistency
        /\ recon_ret.samples.exc = "none") =>
        \A k \in DOMAIN Declared :
            \E cur \in FilteredCurated(Declared[k]) :
                (TruthyDict(cur)
                    /\ ~PyEq(cur, Dict(BcMap(k, IndexSamples(samples_db,
                                 recon_ret.fc_id, recon_ret.project_id)))))
                  => PyEq(recon_ret.samples.val.d[k], cur)

\* C8 (Spec): with the default flags map_name_to_srm returns, for every
\* declared sample, the filtered curated map when that is not empty, and the
\* matcher-derived map over the records of the index when it is empty or
\* absent.
C8_DefaultFlagsCuratedElseMatcher ==
    (OfDeclaringProject /\ recon_ret.use_ps_map /\ ~recon_ret.use_bc_map
        /\ ~recon_ret.check_consistency) =>
        /\ recon_ret.samples.exc = "none"
        /\ \A k \in DOMAIN Declared :
            \E cur \in FilteredCurated(Declared[k]) :
                IF TruthyDict(cur)
                THEN PyEq(recon_ret.samples.val.d[k], cur)
                ELSE PyEq(recon_ret.samples.val.d[k],
                          Dict(BcMap(k, IndexSamples(samples_db, recon_ret.fc_id,
                                                     recon_ret.project_id))))

NoSrmPrefix == <<"N", "O", "S", "R", "M", "_">>

\* C9 (Spec): when map_name_to_srm returned a map, map_srm_to_name returns,
\* for a declared sample k whose run map is empty or None, exactly one entry
\* of sample k, keyed "NOSRM_" + k with id None, if include_all is set, and
\* no entry of sample k if it is not; a sample with a non-empty run map has
\* no entry whose key begins with "NOSRM_".
C9_UnmatchedSamplePlaceholder ==
    (recon_ret # NoCall /\ recon_ret.op = "map_srm_to_name"
        /\ recon_ret.samples.exc = "none" /\ ~IsNone(recon_ret.samples.val)) =>
        /\ recon_ret.out.exc = "none"
        /\ \A k \in DOMAIN recon_ret.samples.val.d :
            LET entries == {x \in DOMAIN recon_ret.out.val :
                              recon_ret.out.val[x].sample = k}
            IN  IF ~TruthyDict(recon_ret.samples.val.d[k])
                THEN IF recon_ret.include_all
                     THEN /\ entries = {NoSrmPrefix \o k}
                          /\ recon_ret.out.val[NoSrmPrefix \o k].id = PyNone
                     ELSE entries = {}
                ELSE /\ (NoSrmPrefix \o k) \notin DOMAIN recon_ret.out.val
                     /\ \A x \in entries : ~StartsWith(x, NoSrmPrefix)

\* a call with include_all has returned for a project with an unmatched
\* sample, which has its placeholder, and a matched one
C9_Witness ==
    /\ recon_ret # NoCall /\ recon_ret.op = "map_srm_to_name"
    /\ recon_ret.include_all
    /\ recon_ret.out.exc = "none"
    /\ \E k, m \in DOMAIN recon_ret.samples.val.d :
        /\ ~TruthyDict(recon_ret.samples.val.d[k])
        /\ (NoSrmPrefix \o k) \in DOMAIN recon_ret.out.val
        /\ TruthyDict(recon_ret.samples.val.d[m])

\* the document the database holds under the candidate's name, if any
StoredUnderName(obj) ==
    {store[i] : i \in {j \in DOMAIN store :
        /\ store[j].name = obj.name
        /\ \A q \in DOMAIN store : store[q].name = obj.name => q <= j}}

\* C10 (SpecUpdate): when the candidate and the document stored under its
\* name agree on every key but _id, _rev, creation_time and modification_time
\* (a missing key counting as None), update_fn returns (None, the stored id)
\* and leaves the candidate as it was.
C10_EqualContentNoWrite ==
    update_ret # NoCall =>
        \A d \in StoredUnderName(update_ret.arg) :
            (\A k \in (DOMAIN d \cup DOMAIN update_ret.arg) \ VolatileKeys :
                Get(d, k) = Get(update_ret.arg, k))
            => /\ update_ret.out.exc = "none"
               /\ update_ret.out.doc = PyNone
               /\ update_ret.out.dbid # PyNone
               /\ update_ret.out.dbid.row.id = d._id
               /\ update_ret.out.obj = update_ret.arg

\* C11 (SpecUpdate): when the database holds no document under the
\* candidate's name, update_fn returns the candidate with creation_time set
\* to the current time, every other key as the caller gave it, and None for
\* the id.
C11_AbsentStampsCreationTime ==
    (update_ret # NoCall /\ StoredUnderName(update_ret.arg) = {}) =>
        /\ update_ret.out.exc = "none"
        /\ update_ret.out.doc = [t |-> "doc",
               doc |-> Set(update_ret.arg, "creation_time", update_ret.t_utc)]
        /\ update_ret.out.dbid = PyNone

\* C12 (SpecUpdate): when the document stored under the candidate's name
\* differs from it in some key other than _id, _rev, creation_time and
\* modification_time, update_fn returns the candidate carrying the stored
\* creation_time, _id and _rev, with modification_time the current time and
\* every other key as the caller gave it, together with the stored id; the
\* database is as it was.
C12_DifferentContentCarriesStoredIdentity ==
    update_ret # NoCall =>
        \A d \in StoredUnderName(update_ret.arg) :
            (\E k \in (DOMAIN d \cup DOMAIN update_ret.arg) \ VolatileKeys :
                Get(d, k) # Get(update_ret.arg, k))
            => /\ update_ret.out.exc = "none"
               /\ update_ret.out.doc # PyNone
               /\ LET r == update_ret.out.doc.doc
                  IN  /\ Get(r, "creation_time") = Get(d, "creation_time")
                      /\ Get(r, "_id") = d._id
                      /\ Get(r, "_rev") = Get(d, "_rev")
                      /\ Get(r, "modification_time") = update_ret.t_utc
                      /\ DOMAIN r \ VolatileKeys = DOMAIN update_ret.arg \ VolatileKeys
                      /\ \A k \in DOMAIN update_ret.arg \ VolatileKeys :
                            r[k] = update_ret.arg[k]
               /\ update_ret.out.dbid # PyNone
               /\ update_ret.out.dbid.row.id = d._id
               /\ d \in {store[i] : i \in DOMAIN store}

\* C13 (SpecUpdate): a second call of update_fn with the same candidate, the
\* database unchanged since the first, returns (None, the stored id).
C13_SecondResolveReturnsNull ==
    update_again # NoCall =>
        /\ update_again.out.exc = "none"
        /\ update_again.out.doc = PyNone
        /\ update_again.out.dbid # PyNone

=============================================================================
